---- MODULE Spec2Model ----
(***************************************************************************)
(* Benchmark result analysis pipeline of falcon-rust: the three plotting   *)
(* analyses                                                                *)
(*   "fverify_1024"  benchmark/plot_fverify_1024_benchmark.py              *)
(*   "fverify"       plotting/plot_fverify_benchmark.py                    *)
(*   "stream"        plotting/plot_fast_full_verify_benchmark.py           *)
(* Each run loads Criterion estimates cell by cell, aggregates them and    *)
(* hands series, baselines and breakeven annotations to the renderer.      *)
(*                                                                         *)
(* Numbers are exact rationals <<num, den>> (den > 0, lowest terms);       *)
(* <<>> is Python's None and <<0, 0>> is a float NaN.  The breakeven       *)
(* interpolation is evaluated twice: exactly, and as binary floating point *)
(* with round-to-nearest-even after every operation, on a significand of   *)
(* MantissaBits bits (a Python float has 53).                              *)
(***************************************************************************)
EXTENDS Integers, Sequences, FiniteSets, TLC

\* ------------------------------------------------------------------ bounds
\* How many entries of index_counts the fverify_1024 analysis iterates over.
MaxIdx1024 == 3
\* How many entries of index_counts the fverify analysis (two series) iterates
\* over.
MaxIdxFv == 2
\* How many cells of the stream analysis's Criterion directory may be
\* irregular: unmeasured, or measured off the regular value.
MaxIrregular == 1
\* How many entries of index_counts the series of SpecCrossover range over.
MaxPoints == 4
\* How many bits the significand of a float has.
MantissaBits == 4

\* -------------------------------------------------------- program constants
NsPerUs == 1000
NsPerMs == 1000000

all_index_counts_1024 == <<1, 2, 4, 8, 16, 32, 48, 64>>
all_index_counts_fverify == <<1, 4, 8, 16, 32, 48, 64>>
\* The prefixes of index_counts the modelled runs iterate over.
index_counts_1024 == SubSeq(all_index_counts_1024, 1, MaxIdx1024)
index_counts_fverify == SubSeq(all_index_counts_fverify, 1, MaxIdxFv)
variants == <<"falcon512", "falcon1024">>
index_counts_stream == <<1, 8>>
\* invalid_fractions, in hundredths (0.01, 0.1, 0.5, 0.9, 0.99)
invalid_fractions == <<1, 10, 50, 90, 99>>

\* --------------------------------------------------------------- rationals
None == <<>>
NaN == <<0, 0>>

Abs(n) == IF n < 0 THEN -n ELSE n

RECURSIVE GCD(_, _)
GCD(a, b) == IF b = 0 THEN a ELSE GCD(b, a % b)

\* n / d in lowest terms; as a numpy float division, 0 / 0 is NaN and
\* n / 0 is an infinity <<1, 0>> or <<-1, 0>> (a RuntimeWarning, no exception)
Rat(n, d) ==
    IF d = 0 THEN (IF n = 0 THEN NaN ELSE <<IF n > 0 THEN 1 ELSE -1, 0>>)
    ELSE LET g == GCD(Abs(n), Abs(d))
             s == IF d < 0 THEN -1 ELSE 1
         IN  <<(s * n) \div g, (s * d) \div g>>

IsNum(a) == Len(a) = 2 /\ a[2] > 0
IsNaN(a) == a = NaN

RAdd(a, b) == Rat(a[1] * b[2] + b[1] * a[2], a[2] * b[2])
RSub(a, b) == Rat(a[1] * b[2] - b[1] * a[2], a[2] * b[2])
RMul(a, b) == Rat(a[1] * b[1], a[2] * b[2])
RDiv(a, b) == Rat(a[1] * b[2], a[2] * b[1])
\* IEEE comparisons: anything compared with NaN is false
RLt(a, b) == IsNum(a) /\ IsNum(b) /\ a[1] * b[2] < b[1] * a[2]
RLe(a, b) == IsNum(a) /\ IsNum(b) /\ a[1] * b[2] <= b[1] * a[2]

\* ----------------------------------------------------------------- floats
RECURSIVE Pow2(_)
Pow2(k) == IF k = 0 THEN 1 ELSE 2 * Pow2(k - 1)

\* n / d (n >= 0, d > 0) rounded to the nearest integer, ties to even.
RoundHalfEven(n, d) ==
    LET q == n \div d
        r == n % d
    IN  IF 2 * r < d THEN q
        ELSE IF 2 * r > d THEN q + 1
        ELSE IF q % 2 = 0 THEN q ELSE q + 1

\* (n / d) * (mul / div) with n / d brought into [2^(p-1), 2^p) and rounded
\* there: the float nearest to a positive rational.
RECURSIVE FlScaled(_, _, _, _)
FlScaled(n, d, mul, div) ==
    IF n < Pow2(MantissaBits - 1) * d THEN FlScaled(2 * n, d, mul, 2 * div)
    ELSE IF n >= Pow2(MantissaBits) * d THEN FlScaled(n, 2 * d, 2 * mul, div)
    ELSE Rat(RoundHalfEven(n, d) * mul, div)

\* The float a real result is rounded to (no overflow, no underflow); NaN and
\* the infinities stay.
Fl(a) ==
    IF ~IsNum(a) \/ a[1] = 0 THEN a
    ELSE IF a[1] > 0 THEN FlScaled(a[1], a[2], 1, 1)
    ELSE LET m == FlScaled(-a[1], a[2], 1, 1) IN <<-m[1], m[2]>>

FlAdd(a, b) == Fl(RAdd(a, b))
FlSub(a, b) == Fl(RSub(a, b))
FlMul(a, b) == Fl(RMul(a, b))
FlDiv(a, b) == Fl(RDiv(a, b))

\* ------------------------------------------------- the Criterion directory
\* What target/criterion/<suite>/<label>/{new,base}/estimates.json can hold.
\* Estimates the cells of a varying series hold, and those of a baseline cell
\* (nanoseconds).
SeriesEstimates ==
    { [mean |-> 8000,  lower |-> 7000, upper |-> 9000],
      [mean |-> 12000, lower |-> 9000, upper |-> 15000] }
BaselineEstimates ==
    { [mean |-> 10000, lower |-> 8000, upper |-> 12000],
      [mean |-> 12000, lower |-> 9000, upper |-> 15000] }

NoFile == [kind |-> "nofile"]
Garbage == [kind |-> "garbage"]
Json(e, hasMean, hasCi) ==
    [kind |-> "json", has_mean |-> hasMean, has_ci |-> hasCi,
     mean |-> e.mean, lower |-> e.lower, upper |-> e.upper]

\* A file is missing, not JSON, a full record, or a record that lacks the
\* confidence interval or the mean.
FilesOf(E) ==
    LET e0 == CHOOSE e \in E : \A o \in E : e.mean <= o.mean
    IN  {NoFile, Garbage, Json(e0, TRUE, FALSE), Json(e0, FALSE, TRUE)}
            \cup {Json(e, TRUE, TRUE) : e \in E}

\* One configuration cell <suite>/<label>: whether the directory exists and
\* what its two run variants hold.  Beside a "new" file, "base" is missing,
\* not JSON, or the full record of the largest estimate.
CellsOf(E) ==
    LET top == CHOOSE e \in E : \A o \in E : o.mean <= e.mean
    IN  { c \in [dir : BOOLEAN, new : FilesOf(E), base : FilesOf(E)] :
            /\ ~c.dir => (c.new = NoFile /\ c.base = NoFile)
            /\ c.new # NoFile => c.base \in {NoFile, Garbage, Json(top, TRUE, TRUE)} }

SeriesCells == CellsOf(SeriesEstimates)
BaselineCells == CellsOf(BaselineEstimates)

Exists(f) == f.kind # "nofile"

\* ------------------------------------------------------------ the loaders
NoEst == [mean |-> 0, ci_lower |-> 0, ci_upper |-> 0,
          error_lower |-> 0, error_upper |-> 0]

Access(op, at) == [op |-> op, at |-> at]

Outcome(tag, from, est, probes) ==
    [tag |-> tag, from |-> from, est |-> est, probes |-> probes]

\* ParseFull with a missing confidence interval read as an interval of 0.
ParseFull_DefaultCi(f, from, probes) ==
    IF f.kind = "garbage" THEN Outcome("JSONDecodeError", from, NoEst, probes)
    ELSE IF ~f.has_mean THEN Outcome("KeyError", from, NoEst, probes)
    ELSE Outcome("ok", from,
                 [mean |-> f.mean,
                  ci_lower |-> IF f.has_ci THEN f.lower ELSE f.mean,
                  ci_upper |-> IF f.has_ci THEN f.upper ELSE f.mean,
                  error_lower |-> IF f.has_ci THEN f.mean - f.lower ELSE 0,
                  error_upper |-> IF f.has_ci THEN f.upper - f.mean ELSE 0],
                 probes)

\* json.load and the field reads of a file that was opened
ParseFull(f, from, probes) ==
    IF f.kind = "garbage" THEN Outcome("JSONDecodeError", from, NoEst, probes)
    ELSE IF ~f.has_mean \/ ~f.has_ci THEN Outcome("KeyError", from, NoEst, probes)
    ELSE Outcome("ok", from,
                 [mean |-> f.mean, ci_lower |-> f.lower, ci_upper |-> f.upper,
                  error_lower |-> f.mean - f.lower,
                  error_upper |-> f.upper - f.mean], probes)

\* benchmark/plot_fverify_1024_benchmark.py load_criterion_estimate
load_criterion_estimate_1024(cell) ==
    LET from == IF Exists(cell.new) THEN "new" ELSE "base"
        f == IF from = "new" THEN cell.new ELSE cell.base
        probes == <<Access("exists", "new"), Access("open", from)>>
    IN  IF ~Exists(f) THEN Outcome("FileNotFoundError", from, NoEst, probes)
        ELSE ParseFull(f, from, probes)

\* plotting/plot_fverify_benchmark.py load_criterion_estimate
load_criterion_estimate_fverify(cell) ==
    LET from == IF Exists(cell.new) THEN "new" ELSE "base"
        f == IF from = "new" THEN cell.new ELSE cell.base
        probes == <<Access("exists", "new"), Access("open", from)>>
    IN  IF ~Exists(f) THEN Outcome("FileNotFoundError", from, NoEst, probes)
        ELSE ParseFull(f, from, probes)

\* The stream loader with the fallback order reversed: "base" before "new".
load_criterion_estimate_stream_BaseFirst(cell) ==
    LET from == IF Exists(cell.base) THEN "base" ELSE "new"
        f == IF from = "base" THEN cell.base ELSE cell.new
        checks == <<Access("exists", "base"), Access("exists", from)>>
        probes == Append(checks, Access("open", from))
    IN  IF ~Exists(f) THEN Outcome("None", from, NoEst, checks)
        ELSE IF f.kind = "garbage"
             THEN Outcome("JSONDecodeError", from, NoEst, probes)
        ELSE IF ~f.has_mean THEN Outcome("KeyError", from, NoEst, probes)
        ELSE Outcome("ok", from, [NoEst EXCEPT !.mean = f.mean], probes)

\* plotting/plot_fast_full_verify_benchmark.py load_criterion_estimate:
\* returns None when neither variant exists and reads the mean only.
load_criterion_estimate_stream(cell) ==
    LET from == IF Exists(cell.new) THEN "new" ELSE "base"
        f == IF from = "new" THEN cell.new ELSE cell.base
        checks == <<Access("exists", "new"), Access("exists", from)>>
        probes == Append(checks, Access("open", from))
    IN  IF ~Exists(f) THEN Outcome("None", from, NoEst, checks)
        ELSE IF f.kind = "garbage"
             THEN Outcome("JSONDecodeError", from, NoEst, probes)
        ELSE IF ~f.has_mean THEN Outcome("KeyError", from, NoEst, probes)
        ELSE Outcome("ok", from, [NoEst EXCEPT !.mean = f.mean], probes)

NoOutcome == Outcome("", "", NoEst, <<>>)

\* ------------------------------------------------------------------ state
VARIABLES
    script,        \* which analysis runs
    pc,            \* position in main()
    at,            \* loop counters: variant v, index count i, control value j
    fverify_data,  \* fverify analyses: the loaded series (512 and 1024)
    verify,        \* fverify analyses: the loaded baseline estimates
    results,       \* stream analysis: results[variant]
    last,          \* the cell the last loop step looked at and what load did
    warnings,      \* the "Warning: Missing data for ..." lines printed
    chart,         \* what the renderer (matplotlib) was handed
    saved,         \* chart artifacts written
    error          \* the exception that ended the run, "" if none

vars == <<script, pc, at, fverify_data, verify, results, last, warnings,
          chart, saved, error>>

Scripts == {"fverify_1024", "fverify", "stream"}

NoCell == [dir |-> FALSE, new |-> NoFile, base |-> NoFile]
NoLast == [called |-> FALSE, key |-> <<>>, cell |-> NoCell, res |-> NoOutcome]

StartPc(s) ==
    CASE s = "fverify_1024" -> "load_fverify_1024"
      [] s = "fverify" -> "load_fverify_512"
      [] OTHER -> "check_dir"

InitOf(S) ==
    /\ script \in S
    /\ pc = StartPc(script)
    /\ at = [v |-> 1, i |-> 1, j |-> 1]
    /\ fverify_data = [d512 |-> <<>>, d1024 |-> <<>>]
    /\ verify = [v512 |-> None, v1024 |-> None, ffi |-> None]
    /\ results = [v \in 1..Len(variants) |->
                    [baseline |-> <<>>,
                     optimized |-> [i \in 1..Len(index_counts_stream) |-> <<>>]]]
    /\ last = NoLast
    /\ warnings = <<>>
    /\ chart = [plots |-> <<>>, hlines |-> <<>>, notes |-> <<>>]
    /\ saved = {}
    /\ error = ""

Init == InitOf(Scripts)

\* An uncaught exception (or sys.exit) ends the run where it is raised.
Abort(tag) ==
    /\ pc' = "aborted"
    /\ error' = tag


\* ------------------------------------------- the fverify analyses: loading
WithIndices(est, n) ==
    [mean |-> est.mean, ci_lower |-> est.ci_lower, ci_upper |-> est.ci_upper,
     error_lower |-> est.error_lower, error_upper |-> est.error_upper,
     indices |-> n]

\* One iteration of "for n in index_counts": the cell is loaded only when its
\* directory exists, and a loaded estimate is appended with its index count.
SeriesStep(data, counts, j, cell, res) ==
    IF ~cell.dir THEN data
    ELSE Append(data, WithIndices(res.est, counts[j]))

\* The loop counter after iteration j of a loop over `counts`, and where the
\* run goes when the loop is over.
LoopNext(counts, nextPc) ==
    IF at.j < Len(counts)
    THEN /\ at' = [at EXCEPT !.j = at.j + 1]
         /\ pc' = pc
    ELSE /\ at' = [at EXCEPT !.j = 1]
         /\ pc' = nextPc

\* benchmark/plot_fverify_1024_benchmark.py, lines 55-61
F1024_LoadCell ==
    /\ script = "fverify_1024" /\ pc = "load_fverify_1024"
    /\ \E cell \in SeriesCells :
         LET res == load_criterion_estimate_1024(cell)
             key == <<"fast verify 1024", index_counts_1024[at.j]>>
         IN  /\ last' = [called |-> cell.dir, key |-> key, cell |-> cell,
                         res |-> IF cell.dir THEN res ELSE NoOutcome]
             /\ IF cell.dir /\ res.tag # "ok"
                THEN /\ Abort(res.tag)
                     /\ UNCHANGED <<at, fverify_data>>
                ELSE /\ fverify_data' =
                          [fverify_data EXCEPT !.d1024 =
                              SeriesStep(@, index_counts_1024, at.j, cell, res)]
                     /\ LoopNext(index_counts_1024, "load_verify_1024")
                     /\ error' = error
    /\ UNCHANGED <<script, verify, results, warnings, chart, saved>>

\* A baseline load: "verify = load_criterion_estimate(path)", no existence
\* check around it.
BaselineStep(res, field, nextPc) ==
    IF res.tag # "ok"
    THEN /\ Abort(res.tag)
         /\ UNCHANGED verify
    ELSE /\ verify' = [verify EXCEPT ![field] = <<res.est>>]
         /\ pc' = nextPc
         /\ error' = error

\* benchmark/plot_fverify_1024_benchmark.py, lines 64-66
F1024_LoadVerify ==
    /\ script = "fverify_1024" /\ pc = "load_verify_1024"
    /\ \E cell \in BaselineCells :
         LET res == load_criterion_estimate_1024(cell)
         IN  /\ last' = [called |-> TRUE, key |-> <<"verify 1024">>,
                         cell |-> cell, res |-> res]
             /\ BaselineStep(res, "v1024", "load_ffi")
    /\ UNCHANGED <<script, at, fverify_data, results, warnings, chart, saved>>

\* benchmark/plot_fverify_1024_benchmark.py, lines 69-71
F1024_LoadFfi ==
    /\ script = "fverify_1024" /\ pc = "load_ffi"
    /\ \E cell \in BaselineCells :
         LET res == load_criterion_estimate_1024(cell)
         IN  /\ last' = [called |-> TRUE, key |-> <<"c ffi verify 1024">>,
                         cell |-> cell, res |-> res]
             /\ BaselineStep(res, "ffi", "plot")
    /\ UNCHANGED <<script, at, fverify_data, results, warnings, chart, saved>>

\* plotting/plot_fverify_benchmark.py, lines 68-74
FV_Load512Cell ==
    /\ script = "fverify" /\ pc = "load_fverify_512"
    /\ \E cell \in SeriesCells :
         LET res == load_criterion_estimate_fverify(cell)
             key == <<"fast verify 512", index_counts_fverify[at.j]>>
         IN  /\ last' = [called |-> cell.dir, key |-> key, cell |-> cell,
                         res |-> IF cell.dir THEN res ELSE NoOutcome]
             /\ IF cell.dir /\ res.tag # "ok"
                THEN /\ Abort(res.tag)
                     /\ UNCHANGED <<at, fverify_data>>
                ELSE /\ fverify_data' =
                          [fverify_data EXCEPT !.d512 =
                              SeriesStep(@, index_counts_fverify, at.j, cell, res)]
                     /\ LoopNext(index_counts_fverify, "load_fverify_1024")
                     /\ error' = error
    /\ UNCHANGED <<script, verify, results, warnings, chart, saved>>

\* plotting/plot_fverify_benchmark.py, lines 79-85
FV_Load1024Cell ==
    /\ script = "fverify" /\ pc = "load_fverify_1024"
    /\ \E cell \in SeriesCells :
         LET res == load_criterion_estimate_fverify(cell)
             key == <<"fast verify 1024", index_counts_fverify[at.j]>>
         IN  /\ last' = [called |-> cell.dir, key |-> key, cell |-> cell,
                         res |-> IF cell.dir THEN res ELSE NoOutcome]
             /\ IF cell.dir /\ res.tag # "ok"
                THEN /\ Abort(res.tag)
                     /\ UNCHANGED <<at, fverify_data>>
                ELSE /\ fverify_data' =
                          [fverify_data EXCEPT !.d1024 =
                              SeriesStep(@, index_counts_fverify, at.j, cell, res)]
                     /\ LoopNext(index_counts_fverify, "load_verify_512")
                     /\ error' = error
    /\ UNCHANGED <<script, verify, results, warnings, chart, saved>>

\* plotting/plot_fverify_benchmark.py, lines 88-90
FV_LoadVerify512 ==
    /\ script = "fverify" /\ pc = "load_verify_512"
    /\ \E cell \in BaselineCells :
         LET res == load_criterion_estimate_fverify(cell)
         IN  /\ last' = [called |-> TRUE, key |-> <<"verify 512">>,
                         cell |-> cell, res |-> res]
             /\ BaselineStep(res, "v512", "load_verify_1024")
    /\ UNCHANGED <<script, at, fverify_data, results, warnings, chart, saved>>

\* plotting/plot_fverify_benchmark.py, lines 93-95
FV_LoadVerify1024 ==
    /\ script = "fverify" /\ pc = "load_verify_1024"
    /\ \E cell \in BaselineCells :
         LET res == load_criterion_estimate_fverify(cell)
         IN  /\ last' = [called |-> TRUE, key |-> <<"verify 1024">>,
                         cell |-> cell, res |-> res]
             /\ BaselineStep(res, "v1024", "plot")
    /\ UNCHANGED <<script, at, fverify_data, results, warnings, chart, saved>>

NextLoadFverify ==
    \/ F1024_LoadCell
    \/ F1024_LoadVerify
    \/ F1024_LoadFfi
    \/ FV_Load512Cell
    \/ FV_Load1024Cell
    \/ FV_LoadVerify512
    \/ FV_LoadVerify1024

\* ----------------------------------- the fverify analyses: plot, breakeven
\* indices = np.array([d["indices"] ...]) and means = np.array([d["mean"] ...]) / 1000
Indices(data) == [k \in 1..Len(data) |-> data[k].indices]
Means(data) == [k \in 1..Len(data) |-> Rat(data[k].mean, NsPerUs)]
ErrorsLower(data) == [k \in 1..Len(data) |-> Rat(data[k].error_lower, NsPerUs)]
ErrorsUpper(data) == [k \in 1..Len(data) |-> Rat(data[k].error_upper, NsPerUs)]

\* verify_mean = verify["mean"] / 1000
MeanUs(est) == Rat(est.mean, NsPerUs)
\* verify_ci = (verify["ci_upper"] - verify["ci_lower"]) / 2 / 1000
HalfWidthUs(est) == RDiv(RDiv(Rat(est.ci_upper - est.ci_lower, 1), Rat(2, 1)),
                         Rat(NsPerUs, 1))

\* breakeven = x1 + (verify_mean - y1) * (x2 - x1) / (y2 - y1)
Interpolate(x1, y1, x2, y2, baseline) ==
    RAdd(Rat(x1, 1),
         RDiv(RMul(RSub(baseline, y1), Rat(x2 - x1, 1)), RSub(y2, y1)))

\* The same expression as the floats evaluate it: every operand is a float
\* and every operation rounds.
InterpolateFl(x1, y1, x2, y2, baseline) ==
    FlAdd(Fl(Rat(x1, 1)),
          FlDiv(FlMul(FlSub(Fl(baseline), Fl(y1)), Fl(Rat(x2 - x1, 1))),
                FlSub(Fl(y2), Fl(y1))))

\* The guard taken in either direction: a falling pass of the baseline too.
Brackets_EitherWay(ys, baseline, i) ==
    \/ RLt(ys[i], baseline) /\ RLe(baseline, ys[i + 1])
    \/ RLt(ys[i + 1], baseline) /\ RLe(baseline, ys[i])

\* The guard with both comparisons non-strict: y1 <= baseline <= y2.
Brackets_NonStrict(ys, baseline, i) ==
    RLe(ys[i], baseline) /\ RLe(baseline, ys[i + 1])

\* The pair the breakeven loop tests at position i.
Brackets(ys, baseline, i) == RLt(ys[i], baseline) /\ RLe(baseline, ys[i + 1])

\* The loop without its "break": the last bracketing pair is the one reported.
RECURSIVE BreakevenFrom_NoBreak(_, _, _, _)
BreakevenFrom_NoBreak(xs, ys, baseline, i) ==
    IF i > Len(ys) - 1 THEN <<>>
    ELSE LET later == BreakevenFrom_NoBreak(xs, ys, baseline, i + 1)
         IN  IF later # <<>> THEN later
             ELSE IF RLt(ys[i], baseline) /\ RLe(baseline, ys[i + 1])
             THEN <<[x |-> RAdd(Rat(xs[i], 1),
                                RDiv(RMul(RSub(baseline, ys[i]),
                                          Rat(xs[i + 1] - xs[i], 1)),
                                     RSub(ys[i + 1], ys[i]))),
                     x_fl |-> InterpolateFl(xs[i], ys[i], xs[i + 1], ys[i + 1],
                                            baseline),
                     y |-> baseline, pair |-> i]>>
             ELSE <<>>

\* "for i in range(len(means) - 1): if means[i] < verify_mean <= means[i+1]:
\*  ...; break", from pair i on: the annotations drawn (none or one).
RECURSIVE BreakevenFrom(_, _, _, _)
BreakevenFrom(xs, ys, baseline, i) ==
    IF i > Len(ys) - 1 THEN <<>>
    ELSE IF Brackets(ys, baseline, i)
    THEN <<[x |-> Interpolate(xs[i], ys[i], xs[i + 1], ys[i + 1], baseline),
            x_fl |-> InterpolateFl(xs[i], ys[i], xs[i + 1], ys[i + 1], baseline),
            y |-> baseline, pair |-> i]>>
    ELSE BreakevenFrom(xs, ys, baseline, i + 1)

Breakeven(xs, ys, baseline) == BreakevenFrom(xs, ys, baseline, 1)

Labelled(notes, label) ==
    [k \in 1..Len(notes) |->
        [label |-> label, x |-> notes[k].x, x_fl |-> notes[k].x_fl,
         y |-> notes[k].y, pair |-> notes[k].pair]]

Plot(label, xs, ys, lo, hi) ==
    [label |-> label, xs |-> xs, ys |-> ys, lo |-> lo, hi |-> hi]
HLine(label, y, ci) == [label |-> label, y |-> y, ci |-> ci]

\* benchmark/plot_fverify_1024_benchmark.py, lines 74-104
F1024_Plot ==
    /\ script = "fverify_1024" /\ pc = "plot"
    /\ LET d == fverify_data.d1024
           v == verify.v1024[1]
           f == verify.ffi[1]
       IN  chart' = [chart EXCEPT
              !.plots = <<Plot("fverify 1024", Indices(d), Means(d),
                               ErrorsLower(d), ErrorsUpper(d))>>,
              !.hlines = <<HLine("verify 1024", MeanUs(v), HalfWidthUs(v)),
                           HLine("c ffi verify 1024", MeanUs(f), HalfWidthUs(f))>>]
    /\ pc' = "breakeven"
    /\ last' = NoLast
    /\ UNCHANGED <<script, at, fverify_data, verify, results, warnings, saved,
                   error>>

\* benchmark/plot_fverify_1024_benchmark.py, lines 106-122
F1024_Breakeven ==
    /\ script = "fverify_1024" /\ pc = "breakeven"
    /\ LET d == fverify_data.d1024
       IN  chart' = [chart EXCEPT !.notes =
              Labelled(Breakeven(Indices(d), Means(d), MeanUs(verify.v1024[1])),
                       "Breakeven")]
    /\ pc' = "save"
    /\ UNCHANGED <<script, at, fverify_data, verify, results, last, warnings,
                   saved, error>>

\* benchmark/plot_fverify_1024_benchmark.py, lines 124-164
F1024_Save ==
    /\ script = "fverify_1024" /\ pc = "save"
    /\ saved' = {"fverify_1024_benchmark.png", "fverify_1024_benchmark.pdf"}
    /\ pc' = "done"
    /\ UNCHANGED <<script, at, fverify_data, verify, results, last, warnings,
                   chart, error>>

\* plotting/plot_fverify_benchmark.py, lines 97-129
FV_Plot ==
    /\ script = "fverify" /\ pc = "plot"
    /\ LET d512 == fverify_data.d512
           d1024 == fverify_data.d1024
       IN  chart' = [chart EXCEPT
              !.plots = <<Plot("Fast Verify Falcon-512", Indices(d512),
                               Means(d512), None, None),
                          Plot("Fast Verify Falcon-1024", Indices(d1024),
                               Means(d1024), None, None)>>,
              !.hlines = <<HLine("Verify Falcon-512", MeanUs(verify.v512[1]), None),
                           HLine("Verify Falcon-1024", MeanUs(verify.v1024[1]),
                                 None)>>]
    /\ pc' = "breakeven_512"
    /\ last' = NoLast
    /\ UNCHANGED <<script, at, fverify_data, verify, results, warnings, saved,
                   error>>

\* plotting/plot_fverify_benchmark.py, lines 131-147
FV_Breakeven512 ==
    /\ script = "fverify" /\ pc = "breakeven_512"
    /\ LET d == fverify_data.d512
       IN  chart' = [chart EXCEPT !.notes = @ \o
              Labelled(Breakeven(Indices(d), Means(d), MeanUs(verify.v512[1])),
                       "512 Breakeven")]
    /\ pc' = "breakeven_1024"
    /\ UNCHANGED <<script, at, fverify_data, verify, results, last, warnings,
                   saved, error>>

\* plotting/plot_fverify_benchmark.py, lines 149-165
FV_Breakeven1024 ==
    /\ script = "fverify" /\ pc = "breakeven_1024"
    /\ LET d == fverify_data.d1024
       IN  chart' = [chart EXCEPT !.notes = @ \o
              Labelled(Breakeven(Indices(d), Means(d), MeanUs(verify.v1024[1])),
                       "1024 Breakeven")]
    /\ pc' = "ticks"
    /\ UNCHANGED <<script, at, fverify_data, verify, results, last, warnings,
                   saved, error>>

\* plotting/plot_fverify_benchmark.py, lines 167-200: means_512.max() and
\* means_1024.max() raise ValueError on a zero-size array.
FV_Ticks ==
    /\ script = "fverify" /\ pc = "ticks"
    /\ IF Len(fverify_data.d512) = 0 \/ Len(fverify_data.d1024) = 0
       THEN Abort("ValueError")
       ELSE /\ pc' = "save"
            /\ error' = error
    /\ UNCHANGED <<script, at, fverify_data, verify, results, last, warnings,
                   chart, saved>>

\* plotting/plot_fverify_benchmark.py, lines 202-212
FV_Save ==
    /\ script = "fverify" /\ pc = "save"
    /\ saved' = {"fverify_benchmark.png", "fverify_benchmark.pdf"}
    /\ pc' = "done"
    /\ UNCHANGED <<script, at, fverify_data, verify, results, last, warnings,
                   chart, error>>

NextRenderFverify ==
    \/ F1024_Plot
    \/ F1024_Breakeven
    \/ F1024_Save
    \/ FV_Plot
    \/ FV_Breakeven512
    \/ FV_Breakeven1024
    \/ FV_Ticks
    \/ FV_Save

\* ------------------------------------------------------ the stream analysis
\* plotting/plot_fast_full_verify_benchmark.py, lines 54-57
ST_CheckDir ==
    /\ script = "stream" /\ pc = "check_dir"
    /\ \E exists \in BOOLEAN :
         IF exists
         THEN /\ pc' = "load_baseline"
              /\ error' = error
         ELSE Abort("SystemExit")
    /\ UNCHANGED <<script, at, fverify_data, verify, results, last, warnings,
                   chart, saved>>

\* The entry with 0 standing in for a cell that was not measured.
StreamEntry_ZeroForMissing(res) ==
    IF res.tag = "ok" THEN Rat(res.est.mean, NsPerMs) ELSE Rat(0, 1)

\* "if data: append(data["mean"] / 1_000_000) else: print(Warning); append(None)"
StreamEntry(res) == IF res.tag = "ok" THEN Rat(res.est.mean, NsPerMs) ELSE None
StreamWarnings(w, res, key) == IF res.tag = "ok" THEN w ELSE Append(w, key)

\* The stream cells explored: all of them hold the regular estimate of their
\* kind but at most MaxIrregular, which are unmeasured or hold another one.
RegularBaseline == Rat(10000, NsPerMs)
RegularOptimized == Rat(12000, NsPerMs)

Irregulars ==
    Cardinality({c \in (1..Len(variants)) \X (1..Len(invalid_fractions)) :
                    /\ c[2] <= Len(results[c[1]].baseline)
                    /\ results[c[1]].baseline[c[2]] # RegularBaseline})
    + Cardinality({c \in (1..Len(variants)) \X (1..Len(index_counts_stream))
                            \X (1..Len(invalid_fractions)) :
                    /\ c[3] <= Len(results[c[1]].optimized[c[2]])
                    /\ results[c[1]].optimized[c[2]][c[3]] # RegularOptimized})

\* A cell read next stays within the cap (a malformed one ends the run).
WithinCap(res, regular) ==
    (res.tag \in {"ok", "None"} /\ StreamEntry(res) # regular)
        => Irregulars < MaxIrregular

\* plotting/plot_fast_full_verify_benchmark.py, lines 69-80
ST_LoadBaseline ==
    /\ script = "stream" /\ pc = "load_baseline"
    /\ \E cell \in BaselineCells :
         LET res == load_criterion_estimate_stream(cell)
             key == <<variants[at.v], "baseline", 0, invalid_fractions[at.j]>>
         IN  /\ WithinCap(res, RegularBaseline)
             /\ last' = [called |-> TRUE, key |-> key, cell |-> cell, res |-> res]
             /\ IF res.tag \notin {"ok", "None"}
                THEN /\ Abort(res.tag)
                     /\ UNCHANGED <<at, results, warnings>>
                ELSE /\ results' = [results EXCEPT ![at.v].baseline =
                                        Append(@, StreamEntry(res))]
                     /\ warnings' = StreamWarnings(warnings, res, key)
                     /\ IF at.j < Len(invalid_fractions)
                        THEN /\ at' = [at EXCEPT !.j = at.j + 1]
                             /\ pc' = pc
                        ELSE /\ at' = [at EXCEPT !.j = 1, !.i = 1]
                             /\ pc' = "load_optimized"
                     /\ error' = error
    /\ UNCHANGED <<script, fverify_data, verify, chart, saved>>

\* Where the nested loops "for idx in index_counts: for frac in
\* invalid_fractions" of "for variant in variants" go after one iteration.
OptimizedNext ==
    IF at.j < Len(invalid_fractions)
    THEN /\ at' = [at EXCEPT !.j = at.j + 1]
         /\ pc' = pc
    ELSE IF at.i < Len(index_counts_stream)
    THEN /\ at' = [at EXCEPT !.j = 1, !.i = at.i + 1]
         /\ pc' = pc
    ELSE IF at.v < Len(variants)
    THEN /\ at' = [v |-> at.v + 1, i |-> 1, j |-> 1]
         /\ pc' = "load_baseline"
    ELSE /\ at' = [v |-> 1, i |-> 1, j |-> 1]
         /\ pc' = "plot"

\* plotting/plot_fast_full_verify_benchmark.py, lines 83-93
ST_LoadOptimized ==
    /\ script = "stream" /\ pc = "load_optimized"
    /\ \E cell \in SeriesCells :
         LET res == load_criterion_estimate_stream(cell)
             key == <<variants[at.v], "indices", index_counts_stream[at.i],
                      invalid_fractions[at.j]>>
         IN  /\ WithinCap(res, RegularOptimized)
             /\ last' = [called |-> TRUE, key |-> key, cell |-> cell, res |-> res]
             /\ IF res.tag \notin {"ok", "None"}
                THEN /\ Abort(res.tag)
                     /\ UNCHANGED <<at, results, warnings>>
                ELSE /\ results' = [results EXCEPT ![at.v].optimized[at.i] =
                                        Append(@, StreamEntry(res))]
                     /\ warnings' = StreamWarnings(warnings, res, key)
                     /\ OptimizedNext
                     /\ error' = error
    /\ UNCHANGED <<script, fverify_data, verify, chart, saved>>

\* [x if x is not None else np.nan for x in ...]
ToNaN(xs) == [k \in 1..Len(xs) |-> IF xs[k] = None THEN NaN ELSE xs[k]]

NotNaN(a) == ~IsNaN(a)

\* The k-th smallest of a non-empty sequence of numbers.
Kth(p, k) ==
    CHOOSE v \in {p[n] : n \in 1..Len(p)} :
        /\ Cardinality({n \in 1..Len(p) : RLt(p[n], v)}) < k
        /\ k <= Cardinality({n \in 1..Len(p) : RLe(p[n], v)})

\* np.median over the same list with every NaN counted as 0.
NanMedian_ZeroFill(raw) ==
    LET p == [k \in 1..Len(raw) |-> IF IsNaN(raw[k]) THEN Rat(0, 1) ELSE raw[k]]
        m == Len(p)
    IN  IF m = 0 THEN NaN
        ELSE IF m % 2 = 1 THEN Kth(p, (m + 1) \div 2)
        ELSE RDiv(RAdd(Kth(p, m \div 2), Kth(p, m \div 2 + 1)), Rat(2, 1))

\* np.nanmedian: the median of the entries that are not NaN, NaN (with a
\* RuntimeWarning) when there is none.
NanMedian(raw) ==
    LET p == SelectSeq(raw, NotNaN)
        m == Len(p)
    IN  IF m = 0 THEN NaN
        ELSE IF m % 2 = 1 THEN Kth(p, (m + 1) \div 2)
        ELSE RDiv(RAdd(Kth(p, m \div 2), Kth(p, m \div 2 + 1)), Rat(2, 1))

\* baseline_median of one variant, lines 110-112
BaselineMedian(v) == NanMedian(ToNaN(results[v].baseline))

\* The ax.plot calls of one variant, lines 133-140
OptimizedPlots(v) ==
    [i \in 1..Len(index_counts_stream) |->
        Plot(<<variants[v], index_counts_stream[i]>>, invalid_fractions,
             ToNaN(results[v].optimized[i]), None, None)]

\* plotting/plot_fast_full_verify_benchmark.py, lines 106-140
ST_PlotVariant ==
    /\ script = "stream" /\ pc = "plot"
    /\ chart' = [chart EXCEPT
          !.hlines = Append(@, HLine(variants[at.v], BaselineMedian(at.v), None)),
          !.plots = @ \o OptimizedPlots(at.v)]
    /\ IF at.v < Len(variants)
       THEN /\ at' = [at EXCEPT !.v = at.v + 1]
            /\ pc' = pc
       ELSE /\ at' = [at EXCEPT !.v = 1]
            /\ pc' = "save"
    /\ last' = NoLast
    /\ UNCHANGED <<script, fverify_data, verify, results, warnings, saved, error>>

\* plotting/plot_fast_full_verify_benchmark.py, lines 142-178
ST_Save ==
    /\ script = "stream" /\ pc = "save"
    /\ saved' = {"stream_verify_benchmark.png", "stream_verify_benchmark.pdf"}
    /\ pc' = "done"
    /\ UNCHANGED <<script, at, fverify_data, verify, results, last, warnings,
                   chart, error>>

NextStream ==
    \/ ST_CheckDir
    \/ ST_LoadBaseline
    \/ ST_LoadOptimized
    \/ ST_PlotVariant
    \/ ST_Save

\* ---------------------------------------------------------- specifications
Next == NextLoadFverify \/ NextRenderFverify \/ NextStream

\* Whole runs of the three analyses.
Spec == Init /\ [][Next]_vars

\* The estimate load_criterion_estimate returns for a full record.
EstOf(e) == ParseFull(Json(e, TRUE, TRUE), "new", <<>>).est

\* What `last` holds after a load of a cell whose only file is new/e.
LastOf(key, e, res) ==
    [called |-> TRUE, key |-> key,
     cell |-> [dir |-> TRUE, new |-> Json(e, TRUE, TRUE), base |-> NoFile],
     res |-> res]

\* All sequences over S of length n.
SeqsOf(S, n) == [1..n -> S]

\* The series "for n in counts" can have loaded when every cell is either
\* skipped (0) or holds a full record with a mean of `means`.
RECURSIVE SeriesFrom(_, _, _)
SeriesFrom(counts, pick, j) ==
    IF j > Len(counts) THEN <<>>
    ELSE IF pick[j] = 0 THEN SeriesFrom(counts, pick, j + 1)
    ELSE <<WithIndices(EstOf([mean |-> pick[j], lower |-> pick[j] - 1000,
                              upper |-> pick[j] + 1000]), counts[j])>>
            \o SeriesFrom(counts, pick, j + 1)

SeriesOver(counts, means) ==
    { SeriesFrom(counts, pick, 1) : pick \in SeqsOf(means \cup {0}, Len(counts)) }

CrossoverMeans1024 == {3000, 4000, 5000, 8000, 10000, 15000, 20000, 40000}
CrossoverMeansFv == {5000, 15000}
CrossoverBaseline == [mean |-> 10000, lower |-> 8000, upper |-> 12000]

\* The fverify analyses from the point where loading is over, over every
\* series of the first MaxPoints index counts and a baseline of 10 us.
InitCrossover ==
    /\ script \in {"fverify_1024", "fverify"}
    /\ pc = "plot"
    /\ at = [v |-> 1, i |-> 1, j |-> 1]
    /\ IF script = "fverify_1024"
       THEN /\ fverify_data \in
                 { [d512 |-> <<>>, d1024 |-> d] :
                     d \in SeriesOver(SubSeq(all_index_counts_1024, 1, MaxPoints),
                                      CrossoverMeans1024) }
            /\ verify = [v512 |-> None,
                         v1024 |-> <<EstOf(CrossoverBaseline)>>,
                         ffi |-> <<EstOf(CrossoverBaseline)>>]
            /\ last = LastOf(<<"c ffi verify 1024">>, CrossoverBaseline,
                             load_criterion_estimate_1024(
                                 [dir |-> TRUE, base |-> NoFile,
                                  new |-> Json(CrossoverBaseline, TRUE, TRUE)]))
       ELSE /\ fverify_data \in
                 { [d512 |-> a, d1024 |-> b] :
                     a, b \in SeriesOver(SubSeq(all_index_counts_fverify, 1, MaxPoints),
                                         CrossoverMeansFv) }
            /\ verify = [v512 |-> <<EstOf(CrossoverBaseline)>>,
                         v1024 |-> <<EstOf(CrossoverBaseline)>>,
                         ffi |-> None]
            /\ last = LastOf(<<"verify 1024">>, CrossoverBaseline,
                             load_criterion_estimate_fverify(
                                 [dir |-> TRUE, base |-> NoFile,
                                  new |-> Json(CrossoverBaseline, TRUE, TRUE)]))
    /\ results = [v \in 1..Len(variants) |->
                    [baseline |-> <<>>,
                     optimized |-> [i \in 1..Len(index_counts_stream) |-> <<>>]]]
    /\ warnings = <<>>
    /\ chart = [plots |-> <<>>, hlines |-> <<>>, notes |-> <<>>]
    /\ saved = {}
    /\ error = ""

SpecCrossover == InitCrossover /\ [][NextRenderFverify]_vars

\* The configuration keys of the stream analysis in the order it loads them.
KeysOfVariant(v) ==
    [j \in 1..Len(invalid_fractions) |-> <<variants[v], "baseline", 0, invalid_fractions[j]>>]
    \o [j \in 1..Len(invalid_fractions) |->
            <<variants[v], "indices", index_counts_stream[1], invalid_fractions[j]>>]
    \o [j \in 1..Len(invalid_fractions) |->
            <<variants[v], "indices", index_counts_stream[2], invalid_fractions[j]>>]

EnumeratedKeys == KeysOfVariant(1) \o KeysOfVariant(2)

Position(xs, x) == CHOOSE k \in 1..Len(xs) : xs[k] = x

\* The entry the run holds for a key, "unloaded" while it has none.
EntryOf(res, key) ==
    LET v == Position(variants, key[1])
        j == Position(invalid_fractions, key[4])
        xs == IF key[2] = "baseline" THEN res[v].baseline
              ELSE res[v].optimized[Position(index_counts_stream, key[3])]
    IN  IF j <= Len(xs) THEN xs[j] ELSE <<"unloaded">>

IsMissingKey(key) == EntryOf(results, key) = None

\* The records of the baseline cells SpecReduce draws its groups from:
\* (mean 10 ms, ci [8, 12]) and (mean 12 ms, ci [9, 15]).
ReduceEstimates ==
    { [mean |-> 10000000, lower |-> 8000000, upper |-> 12000000],
      [mean |-> 12000000, lower |-> 9000000, upper |-> 15000000] }
ReduceMeans == {e.mean : e \in ReduceEstimates}

\* The stream analysis from the point where loading is over: every baseline
\* group of measured (10 ms, 12 ms) and unmeasured cells, the optimized
\* series all regular.
InitReduce ==
    /\ script = "stream"
    /\ pc = "plot"
    /\ at = [v |-> 1, i |-> 1, j |-> 1]
    /\ fverify_data = [d512 |-> <<>>, d1024 |-> <<>>]
    /\ verify = [v512 |-> None, v1024 |-> None, ffi |-> None]
    /\ results \in
         [1..Len(variants) ->
            [baseline : SeqsOf({None} \cup {Rat(m, NsPerMs) : m \in ReduceMeans},
                               Len(invalid_fractions)),
             optimized : {[i \in 1..Len(index_counts_stream) |->
                             [j \in 1..Len(invalid_fractions) |-> RegularOptimized]]}]]
    /\ last = LastOf(EnumeratedKeys[Len(EnumeratedKeys)],
                     [mean |-> 12000, lower |-> 9000, upper |-> 15000],
                     load_criterion_estimate_stream(
                         [dir |-> TRUE, base |-> NoFile,
                          new |-> Json([mean |-> 12000, lower |-> 9000,
                                        upper |-> 15000], TRUE, TRUE)]))
    /\ warnings = SelectSeq(EnumeratedKeys, IsMissingKey)
    /\ chart = [plots |-> <<>>, hlines |-> <<>>, notes |-> <<>>]
    /\ saved = {}
    /\ error = ""

NextReduce == ST_PlotVariant \/ ST_Save

SpecReduce == InitReduce /\ [][NextReduce]_vars

\* ------------------------------------------------------------------ claims
\* The file of the last looked-at cell that load went on to read.
ChosenFile == IF last.res.from = "base" THEN last.cell.base ELSE last.cell.new

\* C1: every load probes "new" first and touches "base" only when "new" does
\* not exist; with only "base" present the result is base's data (never
\* Absent, never a missing-file failure), with both present it is new's data;
\* no location other than "new" and "base" is probed.
C1_FallbackOrder ==
    last.called =>
        LET c == last.cell
            r == last.res
        IN  /\ Len(r.probes) >= 1
            /\ r.probes[1] = Access("exists", "new")
            /\ \A k \in 1..Len(r.probes) : r.probes[k].at \in {"new", "base"}
            /\ (\E k \in 1..Len(r.probes) : r.probes[k].at = "base")
                   => ~Exists(c.new)
            /\ (~Exists(c.new) /\ Exists(c.base)) =>
                   /\ r.tag \notin {"None", "FileNotFoundError"}
                   /\ r.from = "base"
                   /\ (c.base.kind = "json" /\ c.base.has_mean /\ c.base.has_ci)
                          => (r.tag = "ok" /\ r.est.mean = c.base.mean)
            /\ Exists(c.new) =>
                   /\ r.from = "new"
                   /\ (c.new.kind = "json" /\ c.new.has_mean /\ c.new.has_ci)
                          => (r.tag = "ok" /\ r.est.mean = c.new.mean)

\* C1 witness: a stream load of a cell both of whose variants hold a full
\* record, with different means, returned the one of "new".
C1_Witness ==
    /\ script = "stream" /\ last.called
    /\ last.cell.new.kind = "json" /\ last.cell.base.kind = "json"
    /\ last.cell.new.has_mean /\ last.cell.base.has_mean
    /\ last.cell.new.mean # last.cell.base.mean
    /\ last.res.tag = "ok" /\ last.res.est.mean = last.cell.new.mean

\* C2: a load of a cell with neither a "new" nor a "base" estimates record
\* returns Absent and the run goes on.
C2_AbsentIsNotFatal ==
    (last.called /\ ~Exists(last.cell.new) /\ ~Exists(last.cell.base))
        => (last.res.tag = "None" /\ error = "" /\ pc # "aborted")

\* A record that cannot be parsed or lacks one of the three fields.
LacksAField(f) == f.kind = "garbage" \/ (f.kind = "json" /\ (~f.has_mean \/ ~f.has_ci))

\* A record that cannot be parsed or lacks a field the analysis reads: the
\* stream analysis reads the mean only.
Malformed(s, f) ==
    \/ f.kind = "garbage"
    \/ f.kind = "json" /\ ~f.has_mean
    \/ f.kind = "json" /\ ~f.has_ci /\ s # "stream"

\* Nothing was recorded for the cell `last` names, and no cell after it was
\* loaded.
NothingRecordedFromLast ==
    IF script = "stream"
    THEN LET k == Position(EnumeratedKeys, last.key)
         IN  /\ \A n \in k..Len(EnumeratedKeys) :
                    EntryOf(results, EnumeratedKeys[n]) = <<"unloaded">>
             /\ \A n \in 1..Len(warnings) : warnings[n] # last.key
    ELSE /\ Len(last.key) = 2 =>
               /\ \A n \in 1..Len(fverify_data.d512) :
                      last.key[1] = "fast verify 512"
                          => fverify_data.d512[n].indices < last.key[2]
               /\ \A n \in 1..Len(fverify_data.d1024) :
                      last.key[1] = "fast verify 1024"
                          => fverify_data.d1024[n].indices < last.key[2]
               /\ last.key[1] = "fast verify 512" => fverify_data.d1024 = <<>>
               /\ verify = [v512 |-> None, v1024 |-> None, ffi |-> None]
         /\ last.key = <<"verify 512">> => verify.v512 = None /\ verify.v1024 = None
         /\ last.key = <<"verify 1024">> => verify.v1024 = None /\ verify.ffi = None
         /\ last.key = <<"c ffi verify 1024">> => verify.ffi = None

AbortedOnMalformed ==
    /\ pc = "aborted"
    /\ error \in {"JSONDecodeError", "KeyError"}
    /\ ~ENABLED Next
    /\ NothingRecordedFromLast
    /\ chart = [plots |-> <<>>, hlines |-> <<>>, notes |-> <<>>]
    /\ saved = {}

\* C3 as claimed: a record the load opens that cannot be parsed or lacks the
\* mean or the confidence interval aborts the run.
C3_AnyMissingFieldAborts ==
    (last.called /\ Exists(ChosenFile) /\ LacksAField(ChosenFile))
        => AbortedOnMalformed

\* C3, amended: a record the load opens that cannot be parsed or lacks a field
\* that analysis reads (the mean everywhere, the confidence interval in the
\* two fverify analyses only) fails the load and aborts the run: nothing is
\* recorded for the cell, no later cell is loaded, nothing is rendered or
\* written, and no step follows.
C3_MalformedAborts ==
    (last.called /\ Exists(ChosenFile) /\ Malformed(script, ChosenFile))
        => AbortedOnMalformed

\* C3 witness: a stream run that aborted on a record without a mean after it
\* had loaded cells.
C3_Witness ==
    /\ script = "stream" /\ pc = "aborted" /\ error = "KeyError"
    /\ last.called /\ ChosenFile.kind = "json" /\ ~ChosenFile.has_mean
    /\ Len(results[1].baseline) = Len(invalid_fractions)
    /\ Len(results[1].optimized[1]) >= 1

\* Series positions that hold the wrong control value or none: the i-th entry
\* of a complete series belongs to the i-th control value.
OnePerControlValue(data, counts) ==
    /\ Len(data) = Len(counts)
    /\ \A k \in 1..Len(data) : data[k].indices = counts[k]

StreamSeriesOf(v) ==
    {results[v].baseline} \cup
        {results[v].optimized[i] : i \in 1..Len(index_counts_stream)}

\* C4: once loading is over every series has exactly one entry per control
\* value, in domain order; the entry is a Missing marker, with a diagnostic
\* printed, exactly when the cell had no estimates; and a load that reported
\* Absent never stops the run.
C4_OneEntryPerControlValue ==
    /\ (script = "fverify_1024" /\ pc \notin {"load_fverify_1024", "aborted"})
          => OnePerControlValue(fverify_data.d1024, index_counts_1024)
    /\ (script = "fverify" /\ pc \notin {"load_fverify_512", "aborted"})
          => OnePerControlValue(fverify_data.d512, index_counts_fverify)
    /\ (script = "fverify"
          /\ pc \notin {"load_fverify_512", "load_fverify_1024", "aborted"})
          => OnePerControlValue(fverify_data.d1024, index_counts_fverify)
    /\ (script = "stream" /\ pc \in {"plot", "save", "done"})
          => \A v \in 1..Len(variants) : \A xs \in StreamSeriesOf(v) :
                 Len(xs) = Len(invalid_fractions)
    /\ script = "stream" => warnings = SelectSeq(EnumeratedKeys, IsMissingKey)
    /\ (script = "stream" /\ last.called /\ last.res.tag \in {"ok", "None"})
          => (EntryOf(results, last.key) = None <=> last.res.tag = "None")
    /\ (last.called /\ last.res.tag = "None") => pc # "aborted"

\* ---------------------------------------------------- claims on the breakeven
\* The annotations drawn under a label.
NotesOf(label) == {n \in 1..Len(chart.notes) : chart.notes[n].label = label}

\* The pairs of adjacent loaded points with y1 < baseline <= y2 (nanoseconds).
RisingPairs(data, b) ==
    {i \in 1..(Len(data) - 1) : data[i].mean < b.mean /\ b.mean <= data[i + 1].mean}
\* The pairs with y1 >= baseline > y2: the series passes the baseline falling.
FallingPairs(data, b) ==
    {i \in 1..(Len(data) - 1) : data[i].mean >= b.mean /\ b.mean > data[i + 1].mean}

Lowest(S) == CHOOSE i \in S : \A o \in S : i <= o

\* note.x = x1 + (b - y1) * (x2 - x1) / (y2 - y1) on pair i, cross-multiplied.
AtInterpolation(note, data, b, i) ==
    LET x1 == data[i].indices
        x2 == data[i + 1].indices
        y1 == data[i].mean
        y2 == data[i + 1].mean
    IN  /\ note.pair = i
        /\ y2 - y1 > 0
        /\ note.x[1] * (y2 - y1) = (x1 * (y2 - y1) + (b.mean - y1) * (x2 - x1)) * note.x[2]
        /\ note.y[1] * NsPerUs = b.mean * note.y[2]

\* The breakeven loops that have run, as <<series, baseline, label>>.
ScannedSeries ==
    LET pastTicks == pc \in {"save", "done"}
                        \/ (pc = "aborted" /\ error = "ValueError")
    IN  IF script = "fverify_1024"
        THEN IF pc \in {"save", "done"}
             THEN {<<fverify_data.d1024, verify.v1024[1], "Breakeven">>} ELSE {}
        ELSE IF script = "fverify"
        THEN (IF pc \in {"breakeven_1024", "ticks"} \/ pastTicks
              THEN {<<fverify_data.d512, verify.v512[1], "512 Breakeven">>} ELSE {})
             \cup
             (IF pc = "ticks" \/ pastTicks
              THEN {<<fverify_data.d1024, verify.v1024[1], "1024 Breakeven">>} ELSE {})
        ELSE {}

\* The loaded points of a series as <<control value, mean in us>> pairs.
PointsUs(data) == [k \in 1..Len(data) |-> <<data[k].indices, data[k].mean \div NsPerUs>>]

Scanned1024(points) ==
    /\ script = "fverify_1024" /\ pc \in {"save", "done"}
    /\ PointsUs(fverify_data.d1024) = points
    /\ verify.v1024[1].mean = 10 * NsPerUs

\* C5: the scan reports, for the lowest-index adjacent pair with
\* y1 < baseline <= y2, the point x1 + (baseline - y1)(x2 - x1)/(y2 - y1) at
\* the baseline level, and nothing else: one annotation per series even when
\* later pairs qualify; [(1,5),(2,15),(4,5),(8,15)] with baseline 10 gives
\* the crossing of the first pair only, at 3/2.
C5_FirstCrossoverOnly ==
    /\ \A t \in ScannedSeries :
          RisingPairs(t[1], t[2]) # {} =>
              /\ Cardinality(NotesOf(t[3])) = 1
              /\ \A n \in NotesOf(t[3]) :
                     AtInterpolation(chart.notes[n], t[1], t[2],
                                     Lowest(RisingPairs(t[1], t[2])))
    /\ Scanned1024(<<<<1, 5>>, <<2, 15>>, <<4, 5>>, <<8, 15>>>>) =>
          /\ Len(chart.notes) = 1
          /\ chart.notes[1].x = <<3, 2>>
          /\ chart.notes[1].pair = 1

\* C5 witness: the scan of [(1,5),(2,15),(4,5),(8,15)] against 10 is over and
\* drew one annotation although two pairs qualify.
C5_Witness ==
    /\ Scanned1024(<<<<1, 5>>, <<2, 15>>, <<4, 5>>, <<8, 15>>>>)
    /\ Cardinality(RisingPairs(fverify_data.d1024, verify.v1024[1])) = 2
    /\ Len(chart.notes) = 1

\* C6 as claimed: [(1,20),(2,15),(4,8)] against 10 gives a crossover between
\* x=2 and x=4 at 2 + 10/7 = 24/7, and a series passing the baseline while
\* falling yields a crossover.
C6_FallingCrossoverReported ==
    /\ Scanned1024(<<<<1, 20>>, <<2, 15>>, <<4, 8>>>>) =>
          /\ Len(chart.notes) = 1
          /\ chart.notes[1].pair = 2
          /\ chart.notes[1].x = <<24, 7>>
    /\ \A t \in ScannedSeries :
          FallingPairs(t[1], t[2]) # {} => NotesOf(t[3]) # {}

\* C6, amended: [(1,20),(2,15),(4,8)] against 10 gives no crossover, as no
\* adjacent pair has y1 < baseline <= y2; in general only a rising pair is
\* ever reported, and a series that passes the baseline only while falling
\* yields none.
C6_OnlyRisingCrossover ==
    /\ Scanned1024(<<<<1, 20>>, <<2, 15>>, <<4, 8>>>>) => chart.notes = <<>>
    /\ \A t \in ScannedSeries :
          /\ \A n \in NotesOf(t[3]) : chart.notes[n].pair \in RisingPairs(t[1], t[2])
          /\ RisingPairs(t[1], t[2]) = {} => NotesOf(t[3]) = {}

\* C6 witness: the scan of [(1,20),(2,15),(4,8)] against 10 is over and drew
\* nothing, though the series falls through the baseline.
C6_Witness ==
    /\ Scanned1024(<<<<1, 20>>, <<2, 15>>, <<4, 8>>>>)
    /\ FallingPairs(fverify_data.d1024, verify.v1024[1]) = {2}
    /\ chart.notes = <<>>

\* C7: when no adjacent pair of a series has y1 < baseline <= y2 (entirely
\* below, entirely above, fewer than two points) no breakeven is drawn for it,
\* and that is no error: the run goes on to completion.
C7_NoCrossoverIsNoError ==
    \A t \in ScannedSeries :
        RisingPairs(t[1], t[2]) = {} =>
            /\ NotesOf(t[3]) = {}
            /\ pc # "aborted"
            /\ error = ""

\* ---------------------------------------------------- claims on the reduction
\* The members of variant v's baseline group that were measured.
PresentIn(v) ==
    {j \in 1..Len(results[v].baseline) : results[v].baseline[j] # None}

CountOf(v, value) ==
    Cardinality({j \in PresentIn(v) : results[v].baseline[j] = value})

\* The record a measured member of a group was loaded from.
RecordOf(value) == CHOOSE e \in ReduceEstimates : Rat(e.mean, NsPerMs) = value

Max(S) == CHOOSE n \in S : \A o \in S : o <= n
Min(S) == CHOOSE n \in S : \A o \in S : n <= o

\* (max ciUpper - min ciLower) / 2 over the measured members, in ms.
GroupHalfWidth(v) ==
    LET recs == {RecordOf(results[v].baseline[j]) : j \in PresentIn(v)}
    IN  Rat(Max({e.upper : e \in recs}) - Min({e.lower : e \in recs}), 2 * NsPerMs)

\* The median of a group whose measured members are 10 ms or 12 ms.
MedianOf10And12(v) ==
    IF CountOf(v, <<10, 1>>) > CountOf(v, <<12, 1>>) THEN <<10, 1>>
    ELSE IF CountOf(v, <<12, 1>>) > CountOf(v, <<10, 1>>) THEN <<12, 1>>
    ELSE <<11, 1>>

\* The group {Missing, (10, [8,12]), (12, [9,15])}: two measured members.
IsExampleGroup(v) ==
    /\ Cardinality(PresentIn(v)) = 2
    /\ CountOf(v, <<10, 1>>) = 1
    /\ CountOf(v, <<12, 1>>) = 1

\* C8 as claimed: the reduction of a group leaves the Missing members out and
\* yields the median of the measured point estimates together with the
\* half-width (max ciUpper - min ciLower) / 2 over the measured members;
\* {Missing, (10, [8,12]), (12, [9,15])} gives median 11 and half-width 3.5.
C8_MedianAndHalfWidth ==
    script = "stream" =>
        \A v \in 1..Len(chart.hlines) :
            /\ PresentIn(v) # {} =>
                   /\ chart.hlines[v].y = MedianOf10And12(v)
                   /\ chart.hlines[v].ci = GroupHalfWidth(v)
            /\ IsExampleGroup(v) =>
                   /\ chart.hlines[v].y = <<11, 1>>
                   /\ chart.hlines[v].ci = <<7, 2>>

\* C8, amended: the reduction (np.nanmedian over the baseline group) leaves
\* the Missing members out instead of counting them as zero and yields the
\* median of the measured point estimates, 11 for {Missing, 10, 12}; it
\* yields no half-width: the stream analysis keeps the means only.
C8_MedianOfPresent ==
    script = "stream" =>
        \A v \in 1..Len(chart.hlines) :
            /\ PresentIn(v) # {} => chart.hlines[v].y = MedianOf10And12(v)
            /\ IsExampleGroup(v) => chart.hlines[v].y = <<11, 1>>
            /\ chart.hlines[v].ci = None

\* C8 witness: the baseline of the first variant, a group with Missing
\* members and the measured members 10 and 12, was reduced to 11.
C8_Witness ==
    /\ script = "stream" /\ Len(chart.hlines) >= 1
    /\ IsExampleGroup(1)
    /\ results[1].baseline[1] = None
    /\ chart.hlines[1].y = <<11, 1>>

\* C9: a group all of whose members are Missing reduces to Absent: the
\* baseline handed to the renderer is no number, neither 0 nor NaN.
C9_AllMissingIsAbsent ==
    script = "stream" =>
        \A v \in 1..Len(chart.hlines) :
            PresentIn(v) = {} =>
                /\ chart.hlines[v].y = None
                /\ chart.hlines[v].y # Rat(0, 1)
                /\ ~IsNaN(chart.hlines[v].y)

\* ----------------------------------------------- claims on gap propagation
LoadedKeys == {n \in 1..Len(EnumeratedKeys) :
                  EntryOf(results, EnumeratedKeys[n]) # <<"unloaded">>}

\* The series a drawn plot shows, by its label <<variant, index count>>.
SeriesOfPlot(p) ==
    results[Position(variants, p.label[1])]
        .optimized[Position(index_counts_stream, p.label[2])]

\* What the run holds and hands over for the cells of the stream analysis.
GapsAreMarked ==
    script = "stream" =>
        \* the entry of the cell just loaded: None for an Absent cell, else
        \* the mean of the record that was read, in ms
        /\ (last.called /\ last.res.tag = "None")
              => EntryOf(results, last.key) = None
        /\ (last.called /\ last.res.tag = "ok") =>
              LET e == EntryOf(results, last.key)
              IN  /\ IsNum(e)
                  /\ e[1] * NsPerMs = ChosenFile.mean * e[2]
        \* no entry is a 0 or a NaN
        /\ \A n \in LoadedKeys :
              LET e == EntryOf(results, EnumeratedKeys[n])
              IN  e = None \/ (IsNum(e) /\ e[1] > 0)
        \* the renderer gets one value per control value: the gap marker for
        \* a missing entry, the entry itself otherwise
        /\ \A n \in 1..Len(chart.plots) :
              LET p == chart.plots[n]
                  xs == SeriesOfPlot(p)
              IN  /\ p.xs = invalid_fractions
                  /\ Len(p.ys) = Len(invalid_fractions)
                  /\ \A j \in 1..Len(p.ys) :
                        IF xs[j] = None THEN p.ys[j] = NaN
                        ELSE p.ys[j] = xs[j] /\ IsNum(p.ys[j]) /\ p.ys[j][1] > 0

\* An entry, once loaded, is never changed.
EntriesKept ==
    script = "stream" =>
        \A n \in LoadedKeys :
            EntryOf(results', EnumeratedKeys[n]) = EntryOf(results, EnumeratedKeys[n])

\* C10: in every state of a stream run a position whose cell was Absent holds
\* the gap marker from loading on, and what the renderer is handed at that
\* control value is the gap marker, never 0 or another number; every measured
\* position hands over its own loaded value unchanged.
C10_GapMarkerPropagates == [](GapsAreMarked) /\ [][EntriesKept]_vars

\* C10 witness: a finished stream run whose first optimized series had its
\* third cell Absent: the plot got a gap there and numbers around it.
C10_Witness ==
    /\ script = "stream" /\ pc = "done"
    /\ results[1].optimized[1][3] = None
    /\ chart.plots[1].ys[3] = NaN
    /\ IsNum(chart.plots[1].ys[2]) /\ IsNum(chart.plots[1].ys[4])

\* ------------------------------------------- claims on the interpolation
\* The pairs of adjacent loaded points with equal values.
FlatPairs(data) == {i \in 1..(Len(data) - 1) : data[i].mean = data[i + 1].mean}

\* The pairs of a scanned series on which the division was executed: the
\* pairs an annotation was computed from.
DividedPairs(t) == {chart.notes[n].pair : n \in NotesOf(t[3])}

\* C11: the interpolation never divides by zero: on every pair the division
\* was executed on, y1 < baseline <= y2 and so y2 - y1 > 0, and the result is
\* a finite number; a pair with y1 = y2 never reaches the division, and the
\* scan goes on to the pairs after it.
C11_NoDivisionByZero ==
    \A t \in ScannedSeries :
        /\ \A i \in DividedPairs(t) :
              /\ t[1][i].mean < t[2].mean /\ t[2].mean <= t[1][i + 1].mean
              /\ t[1][i + 1].mean - t[1][i].mean > 0
              /\ i \notin FlatPairs(t[1])
        /\ \A n \in NotesOf(t[3]) :
              /\ IsNum(chart.notes[n].x)
              /\ ~IsNaN(chart.notes[n].x)
        /\ \A i \in FlatPairs(t[1]) :
              \A j \in RisingPairs(t[1], t[2]) :
                  (j > i /\ j = Lowest(RisingPairs(t[1], t[2])))
                      => j \in DividedPairs(t)

\* C11 witness: the scan of [(1,10),(2,10),(4,5),(8,15)] against 10 is over:
\* the first pair is flat at the baseline itself and was passed over, and the
\* division was executed on the last pair only.
C11_Witness ==
    /\ Scanned1024(<<<<1, 10>>, <<2, 10>>, <<4, 5>>, <<8, 15>>>>)
    /\ 1 \in FlatPairs(fverify_data.d1024)
    /\ Len(chart.notes) = 1
    /\ chart.notes[1].pair = 3
    /\ chart.notes[1].x = <<6, 1>>

\* x1 < x <= x2 on the pair the annotation was computed from, x = x2 exactly
\* when y2 is the baseline, and x within the measured control values.
InsideBracket(x, data, b, i) ==
    LET x1 == Rat(data[i].indices, 1)
        x2 == Rat(data[i + 1].indices, 1)
    IN  /\ RLt(x1, x) /\ RLe(x, x2)
        /\ x = x2 <=> data[i + 1].mean = b.mean
        /\ RLe(Rat(data[1].indices, 1), x)
        /\ RLe(x, Rat(data[Len(data)].indices, 1))

\* The control values of a series ascend strictly.
Ascending(data) ==
    \A i \in 1..(Len(data) - 1) : data[i].indices < data[i + 1].indices

\* The value of the interpolation expression in exact arithmetic lies inside
\* the bracket.
ExactInsideBracket ==
    \A t \in ScannedSeries : \A n \in NotesOf(t[3]) :
        Ascending(t[1]) =>
            InsideBracket(chart.notes[n].x, t[1], t[2], chart.notes[n].pair)

\* C12: whenever a crossover is reported for a series with strictly ascending
\* control values, the reported value (the float the program computed) lies
\* inside the bracketing interval, x1 < x* <= x2, with x* = x2 exactly when y2
\* equals the baseline, and so never before the first or after the last
\* measured point.
C12_ReportedInsideBracket ==
    \A t \in ScannedSeries : \A n \in NotesOf(t[3]) :
        Ascending(t[1]) =>
            InsideBracket(chart.notes[n].x_fl, t[1], t[2], chart.notes[n].pair)
====
